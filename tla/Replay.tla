--------------------------------- MODULE Replay ---------------------------------
(***************************************************************************)
(* Replaying a data directory: RecordReplayer::replay_all                  *)
(* (src/src/replay/record_replayer.h) over BinaryRecordReader              *)
(* (src/src/storage/binary_record_reader.h) and the selection of hourly    *)
(* files by time window (src/src/storage/file_roll.h).  Replayer           *)
(* (src/src/api/replayer.cpp) forwards its calls and copies the result.    *)
(*                                                                         *)
(* An hourly file is the records it holds in full, whether its header can  *)
(* be read, the record_count in that header, and whether half a record     *)
(* follows at the end.  A directory is chosen among those a writer, its    *)
(* crashes and later damage to the disk can leave; while the replay runs,  *)
(* others may delete files, and a recorder in another process may go on    *)
(* with the newest one.  One call is modelled: each has a reader of its    *)
(* own.                                                                    *)
(***************************************************************************)
EXTENDS Integers, SequencesExt

CONSTANTS Hours,          \* the hours files may exist for
          HourLength,     \* instants in an hour
          EarlyNames,     \* hours beyond the year 9999 whose names sort before all files'
          WindowEnds,     \* the values a caller gives for from_us and to_us
          MaxRecords,     \* bound: complete records in a file
          MaxDefects,     \* bound: defects in a directory
          MaxChanges      \* bound: files deleted and records appended meanwhile

(* recv_ts_us is a wall-clock reading, so no file is of the epoch's hour. *)
ASSUME ReplayAssumption ==
    /\ HourLength \in Nat \ {0} /\ MaxRecords \in Nat
    /\ MaxDefects \in Nat /\ MaxChanges \in Nat
    /\ Hours \subseteq Nat \ {0} /\ IsFiniteSet(Hours)
    /\ EarlyNames \subseteq Nat /\ \A h \in Hours, e \in EarlyNames : h < e
    /\ WindowEnds \subseteq Int

VARIABLES dir,        \* the hourly files, those deleted included
          deleted,    \* those deleted since the listing
          appended,   \* records appended to the newest file since the listing
          phase,      \* where replay_all is
          window,     \* window_
          files,      \* files_
          fileIndex,  \* file_index_, counted from 1
          pos,        \* complete records read from the open file
          total,      \* total_record_count_
          readError,  \* read_error_
          delivered,  \* history: the places of the records whose callback completed
          result      \* ReplayResult

vars == <<dir, deleted, appended, phase, window, files, fileIndex, pos, total,
          readError, delivered, result>>
disk == <<dir, deleted, appended>>
reader == <<files, fileIndex, pos, total, readError>>

-----------------------------------------------------------------------------
(* Time windows; a std::optional is a set of at most one value. *)

Optional == {{}} \cup {{b} : b \in WindowEnds}
TimeWindow == [from : Optional, to : Optional]

NoWindow == [from |-> {}, to |-> {}]
Valid(w) == \A f \in w.from, t \in w.to : f <= t
InWindow(w, ts) == (\A f \in w.from : ts >= f) /\ (\A t \in w.to : ts <= t)

(* The hour of a time; a negative one counts as the epoch. *)
HourOf(ts) == (IF ts < 0 THEN 0 ELSE ts) \div HourLength

(* hourly_file_name, as the hour it sorts with among the files: its own, as *)
(* names are compared letter by letter and have four digits for the year.   *)
(* From the year 10000 on there are five, and the names of some ten         *)
(* thousand years, 100000101_00 the first, sort before those of all files.  *)
NamedHour(ts) == IF HourOf(ts) \in EarlyNames THEN 0 ELSE HourOf(ts)

(* Mutation: the hour that contains from_us is taken to be over. *)
HourlyFileAfterWindowStart(h, w) == /\ \A f \in w.from : h > NamedHour(f)
                                    /\ \A t \in w.to : h <= NamedHour(t)
HourlyFileInWindow(h, w) == /\ \A f \in w.from : h >= NamedHour(f)
                            /\ \A t \in w.to : h <= NamedHour(t)

(* Mutation: the listing is sorted the wrong way round. *)
ListedBackwards(hs) == CHOOSE s \in [1 .. Cardinality(hs) -> hs] :
    Range(s) = hs /\ \A i, j \in DOMAIN s : i < j => s[i] > s[j]
(* std::sort of the names *)
Listed(hs) == CHOOSE s \in [1 .. Cardinality(hs) -> hs] :
    Range(s) = hs /\ \A i, j \in DOMAIN s : i < j => s[i] < s[j]

ListRecordFiles(d, w) == Listed({h \in DOMAIN d : HourlyFileInWindow(h, w)})

-----------------------------------------------------------------------------
(* The directories. *)

Record(h) == [ts : h * HourLength .. (h + 1) * HourLength - 1, intact : BOOLEAN]

(* A file of hour h with at most n complete records. *)
File(h, n) ==
    [readable : {TRUE}, count : 0 .. n + 1, recs : BoundedSeq(Record(h), n), torn : BOOLEAN]
           \cup {[readable |-> FALSE, count |-> 0, recs |-> <<>>, torn |-> FALSE]}

Broken(f) == {i \in 1 .. Len(f.recs) : ~f.recs[i].intact}

Defects(f) == Cardinality(Broken(f)) + (IF f.readable THEN 0 ELSE 1)
                + (IF f.torn THEN 1 ELSE 0) + (IF f.count = Len(f.recs) THEN 0 ELSE 1)

AllFiles == [h \in Hours |-> {f \in File(h, MaxRecords) : Defects(f) <= MaxDefects}]

AllDefects(d) == MapThenSumSet(LAMBDA h : Defects(d[h]), DOMAIN d)

Directories ==
    UNION {{d \in [hs -> UNION {AllFiles[h] : h \in hs}] :
               (\A h \in hs : d[h] \in AllFiles[h]) /\ AllDefects(d) <= MaxDefects}
           : hs \in SUBSET Hours}

NewResult == [replayed |-> 0, header |-> 0, completed |-> FALSE,
              fileError |-> FALSE, callbackError |-> FALSE, countMismatch |-> FALSE]

Init == /\ dir \in Directories /\ deleted = {} /\ appended = 0
        /\ phase = "new" /\ window = NoWindow
        /\ files = <<>> /\ fileIndex = 1 /\ pos = 0 /\ total = 0 /\ readError = FALSE
        /\ delivered = <<>> /\ result = NewResult

Changes == Cardinality(deleted) + appended

(* External: somebody removes a file.  A reader that has it open can go on. *)
Delete(h) == /\ phase \notin {"new", "returned"} /\ Changes < MaxChanges
             /\ h \in DOMAIN dir \ deleted
             /\ deleted' = deleted \cup {h}
             /\ UNCHANGED <<dir, appended, phase, window, reader, delivered, result>>

(* External: the recorder that has repaired and opened the newest file (see *)
(* RecordWriter) hands over one more record, perhaps with part of the next, *)
(* and may bring the header's count up to date.                             *)
RecorderAppends ==
    /\ phase \notin {"new", "returned"} /\ Changes < MaxChanges /\ DOMAIN dir # {}
    /\ LET h == Max(DOMAIN dir) IN
       /\ h \notin deleted /\ dir[h].readable
       /\ Broken(dir[h]) = {} /\ dir[h].count <= Len(dir[h].recs)
       /\ \E r \in Record(h), t \in BOOLEAN, c \in {dir[h].count, Len(dir[h].recs) + 1} :
             /\ r.intact
             /\ dir' = [dir EXCEPT ![h].recs = Append(@, r), ![h].torn = t, ![h].count = c]
    /\ appended' = appended + 1
    /\ UNCHANGED <<deleted, phase, window, reader, delivered, result>>

-----------------------------------------------------------------------------
(* replay_all *)

Return(r) == phase' = "returned" /\ result' = r

(* An empty callback. *)
ReplayWithoutCallback(w) ==
    /\ phase = "new"
    /\ Return([NewResult EXCEPT !.callbackError = TRUE])
    /\ window' = w
    /\ UNCHANGED <<disk, reader, delivered>>

(* BinaryRecordReader::open of a new reader, up to the listing. *)
OpenInvalidWindow(w) ==
    /\ phase = "new" /\ ~Valid(w)
    /\ Return([NewResult EXCEPT !.fileError = TRUE])
    /\ window' = w
    /\ UNCHANGED <<disk, reader, delivered>>

OpenListing(w) ==
    /\ phase = "new" /\ Valid(w)
    /\ window' = w
    /\ files' = ListRecordFiles(dir, w)
    /\ \/ files' # <<>> /\ phase' = "probe" /\ UNCHANGED result
       \/ files' = <<>> /\ w # NoWindow /\ phase' = "finish" /\ UNCHANGED result
       \/ files' = <<>> /\ w = NoWindow /\ Return([NewResult EXCEPT !.fileError = TRUE])
    /\ UNCHANGED <<disk, fileIndex, pos, total, readError, delivered>>

(* The path can be opened and the header read and found right. *)
HeaderOk(h) == h \notin deleted /\ dir[h].readable

(* open: every listed header is read once; here fileIndex walks the list. *)
Probe ==
    /\ phase = "probe"
    /\ LET h == files[fileIndex] IN
       IF ~HeaderOk(h)
         THEN /\ Return([NewResult EXCEPT !.fileError = TRUE])
              /\ files' = <<>> /\ UNCHANGED <<fileIndex, total>>
         ELSE /\ total' = total + dir[h].count
              /\ IF fileIndex = Len(files)
                   THEN phase' = "first" /\ fileIndex' = 1
                   ELSE fileIndex' = fileIndex + 1 /\ UNCHANGED phase
              /\ UNCHANGED <<files, result>>
    /\ UNCHANGED <<disk, window, pos, readError, delivered>>

(* open_index(0) *)
OpenFirst ==
    /\ phase = "first"
    /\ IF HeaderOk(files[1])
         THEN phase' = "read" /\ UNCHANGED result
         ELSE Return([NewResult EXCEPT !.fileError = TRUE])
    /\ UNCHANGED <<disk, window, files, fileIndex, pos, total, readError, delivered>>

-----------------------------------------------------------------------------
(* read_next and the loop around it *)

Current == dir[files[fileIndex]]
NextRecord == Current.recs[pos + 1]
AtRecord == phase = "read" /\ pos < Len(Current.recs)

(* Mutation: a broken record is taken for the end of its file. *)
ReadBrokenAsEnd ==
    /\ AtRecord /\ ~NextRecord.intact
    /\ pos' = Len(Current.recs)
    /\ UNCHANGED <<disk, phase, window, files, fileIndex, total, readError, delivered, result>>
(* A damaged record ends the replay. *)
ReadBroken ==
    /\ AtRecord /\ ~NextRecord.intact
    /\ readError' = TRUE /\ pos' = pos + 1
    /\ phase' = "finish"
    /\ UNCHANGED <<disk, window, files, fileIndex, total, delivered, result>>

ReadOutsideWindow ==
    /\ AtRecord /\ NextRecord.intact /\ ~InWindow(window, NextRecord.ts)
    /\ pos' = pos + 1
    /\ UNCHANGED <<disk, phase, window, files, fileIndex, total, readError, delivered, result>>

ReadInWindow == AtRecord /\ NextRecord.intact /\ InWindow(window, NextRecord.ts)

Deliver ==
    /\ ReadInWindow
    /\ pos' = pos + 1
    /\ delivered' = Append(delivered, <<files[fileIndex], pos + 1>>)
    /\ result' = [result EXCEPT !.replayed = @ + 1]
    /\ UNCHANGED <<disk, phase, window, files, fileIndex, total, readError>>

CallbackThrows ==
    /\ ReadInWindow
    /\ pos' = pos + 1
    /\ result' = [result EXCEPT !.callbackError = TRUE]
    /\ phase' = "finish"
    /\ UNCHANGED <<disk, window, files, fileIndex, total, readError, delivered>>

(* The end of a file, with or without half a record: on to the next one. *)
NextFile ==
    /\ phase = "read" /\ pos = Len(Current.recs)
    /\ IF fileIndex = Len(files)
         THEN phase' = "finish" /\ UNCHANGED <<fileIndex, pos, readError>>
         ELSE /\ fileIndex' = fileIndex + 1 /\ pos' = 0
              /\ IF HeaderOk(files[fileIndex + 1])
                   THEN UNCHANGED <<phase, readError>>
                   ELSE phase' = "finish" /\ readError' = TRUE
    /\ UNCHANGED <<disk, window, files, total, delivered, result>>

(* Mutation: the counts are compared in a windowed replay too. *)
CountMismatchWindowed == ~readError /\ total > 0 /\ result.replayed # total
CountMismatch == ~readError /\ window = NoWindow /\ total > 0 /\ result.replayed # total

(* replay_all after the loop; the reader is closed and dropped. *)
Finish ==
    /\ phase = "finish"
    /\ Return([result EXCEPT !.header = total, !.fileError = readError,
                             !.countMismatch = CountMismatch,
                             !.completed = ~readError /\ ~result.callbackError /\ ~CountMismatch])
    /\ UNCHANGED <<disk, window, reader, delivered>>

Next == \/ \E w \in TimeWindow : \/ ReplayWithoutCallback(w)
                                 \/ OpenInvalidWindow(w) \/ OpenListing(w)
        \/ Probe \/ OpenFirst
        \/ ReadBroken \/ ReadOutsideWindow \/ Deliver \/ CallbackThrows \/ NextFile
        \/ Finish
        \/ \E h \in Hours : Delete(h)
        \/ RecorderAppends

Spec == Init /\ [][Next]_vars

-----------------------------------------------------------------------------
(* Reference: the place of a record is the hour of its file and its number   *)
(* in it; records are only ever appended, so a place names one record.  The  *)
(* order of the places is the order of time of the files.                    *)
PlacesIn(hs) == UNION {{h} \X (1 .. Len(dir[h].recs)) : h \in hs}
Before(p, q) == p[1] < q[1] \/ (p[1] = q[1] /\ p[2] < q[2])
At(p) == dir[p[1]].recs[p[2]]

(* What the window asks for, without regard to the names of the files. *)
Wanted(P) == {p \in P : InWindow(window, At(p).ts)}
Touched == {h \in DOMAIN dir :
               \E ts \in h * HourLength .. (h + 1) * HourLength - 1 : InWindow(window, ts)}

(* The window's ends have names in the order of time. *)
Nameable(w) == \A e \in w.from \cup w.to : HourOf(e) \notin EarlyNames

HandedOver == Range(delivered)

(* At every moment of a replay the callback has got, in order, the first of *)
(* the wanted records of the whole directory, none of them damaged:         *)
(* read_next neither skips, repeats, reorders nor invents a record, and     *)
(* choosing files by their names passes over nothing of the window before   *)
(* a record that is handed over.                                            *)
DeliveredIsPrefix ==
    /\ \A i, j \in 1 .. Len(delivered) : i < j => Before(delivered[i], delivered[j])
    /\ \A p \in HandedOver :
          /\ p \in Wanted(PlacesIn(DOMAIN dir)) /\ At(p).intact
          /\ \A q \in Wanted(PlacesIn(DOMAIN dir)) : Before(q, p) => q \in HandedOver

(* What the files held when they were listed: appending goes on at the end  *)
(* of the newest one.                                                       *)
PlacesAtListing ==
    {p \in PlacesIn(DOMAIN dir) :
        p[1] = Max(DOMAIN dir) => p[2] <= Len(dir[p[1]].recs) - appended}

HandedOverAll == Wanted(PlacesAtListing) \subseteq HandedOver

(* completed means complete: every record in the window that the directory  *)
(* held in full when it was listed was handed over, even with files deleted *)
(* and records appended meanwhile, for the windows whose ends are named in  *)
(* the order of time (src/src/storage/file_roll.h:85 takes this for         *)
(* granted: a window to an end with an early name selects no file, and the  *)
(* replay reports completion).                                              *)
CompletedIsExact ==
    phase = "returned" /\ result.completed /\ Nameable(window) => HandedOverAll

(* A damaged record ends the replay with file_error exactly there: what     *)
(* precedes it has been handed over, in its own and in earlier files, and   *)
(* nothing that follows (windows as in CompletedIsExact).                   *)
DamageStopsThere ==
    LET all == PlacesIn(Touched)
        bad == {p \in all : ~At(p).intact}
    IN  /\ phase = "returned" /\ ~result.callbackError /\ deleted = {}
        /\ Valid(window) /\ Nameable(window)
        /\ \A h \in Touched : dir[h].readable
        /\ bad # {}
        => /\ result.fileError /\ ~result.completed
           /\ \E p \in bad : /\ \A q \in bad \ {p} : Before(p, q)
                            /\ HandedOver = Wanted({q \in all : Before(q, p)})

(* If every file the window touches was closed in order and is undamaged,   *)
(* the replay completes, whatever the state of the files outside (windows   *)
(* as in CompletedIsExact); beside a recorder only if it has a window, for  *)
(* total_record_count_ is taken when the files are opened and the records   *)
(* are counted as they are read.                                            *)
SoundFilesComplete ==
    /\ phase = "returned" /\ ~result.callbackError /\ deleted = {}
    /\ Valid(window) /\ Nameable(window)
    /\ DOMAIN dir # {} \/ window # NoWindow
    /\ \A h \in Touched : Defects(dir[h]) = 0
    /\ appended = 0 \/ window # NoWindow
    => result.completed
=============================================================================
