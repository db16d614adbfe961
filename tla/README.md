# Verification of market-data-system

TLA+ models of the market data recorder in `src/`, checked with TLC on small
instances, and theorems about them proved with TLAPS for every value of the
constants. Paths below are relative to the repository root (`src/src/...` is
the program's own source tree). `PROJECT.json` maps every definition to the
lines it models.

## 1. The system

A feed connects to an exchange over a WebSocket, parses trades and order-book
snapshots, checks the trade sequence, hands them to user callbacks and records
them in hourly binary files, which can be replayed later.

| Component | State | Operations | Hard behaviour |
|---|---|---|---|
| Record writer, `storage/binary_record_writer.h`, `storage/record_integrity.h` | bounded queue, flags, counters, current file and its record count, worker thread | `open`, `write`, `close`, worker loop, hourly roll, header update, repair | notification outside the lock, I/O failure inside a batch, process death between any two steps, reopening damaged files |
| Record reader and replayer, `storage/binary_record_reader.h`, `replay/record_replayer.h`, `storage/file_roll.h`, `api/replayer.cpp` | list of files, position, sum of header counts, result | `open`, `read_next`, `replay_all` | damaged and torn files, windows that cut through hours, files deleted meanwhile, callbacks that throw |
| Trade sequence gate, `network/trade_seq_gate.h` | mode, last id, missing range | `on_live_trade`, `on_replay_trade` | lost, repeated, reordered and retransmitted trades |
| Message dispatch, `on_raw_message` in `network/connection_manager.cpp` | a gate and a last update id per symbol, counters | one handler | counters kept by hand next to the gates, over interleaved symbols |
| Connection lifecycle, `network/connection_manager.cpp`, `network/websocket_client.cpp` | flags, the client and its flags, two mutexes, two condition variables | `start`, `stop`, destructor, reconnect loop, clock loop, read loop, heartbeat loop, `disconnect` | five threads, flags set without the mutex of the wait, stop during a connection attempt |
| Heartbeat timing, `heartbeat_loop` | time of the last data | ping, time-out | time-out racing late data |
| Clock calibrator, `network/clock_offset.h` | offset, flag, counters (relaxed atomics) | `on_sample`, `on_transport_failure`, `offset_us`, `exchange_to_recv_us` | stores seen out of order, clock set during a request, rounding |
| Feed, `api/feed.cpp` | `started_`, writers, connection manager | `start`, `stop`, internal callbacks | start that throws half way, callbacks running into a stop |
| Parser, `parser/parser.cpp` | none | `parse_trade`, `parse_orderbook` | overflow in the conversion of times, one bad level among good ones |
| Latency histogram, `monitor/latency_histogram.h` | buckets, maximum (relaxed atomics) | `record`, `snapshot_and_reset` | two threads, several atomics per operation, rounding of ranks |
| Ring buffer, `cache/ring_buffer.h` | slots, head, count | `push`, `snapshot` | wrapping at the capacity |
| Configuration, `config/config.h` | the fields | `load` | widths of integers, precedence of file and environment |
| Command line program, `main.cpp` | `g_running`, the locals of `run_live`, the reporter's tick | argument parsing, `run_live`, signal handler, `reporter_loop` | signals at any moment, reporter against read thread, order of destruction |
| Pipeline benchmark, `benchmark/pipeline_benchmark.cpp` | counters of callbacks | `run_pipeline_benchmark` | made-up messages through the real handler |

The components interact as follows. The feed opens two writers, registers
callbacks with the connection manager and starts it. The manager's reconnect
thread creates a client; the client's read thread calls `on_raw_message`, which
asks the parser and the gate and calls the feed's callback, which calls `write()` of a writer
(a queue hand-off to the worker thread) and then the user. The heartbeat thread
closes a silent socket; the read thread then reports the loss through a callback
that sets a flag and notifies the reconnect thread. The clock thread publishes
an offset that the read thread uses. The command line program does what the feed
does with objects of its own, pushes every record into a ring buffer as well, and
has a reporter thread that reads the counters and empties the histograms. Writer
and replayer meet only through the files, perhaps while both run.

What makes each part correct: no record is lost uncounted and no file becomes
unreadable (writer); a replay delivers exactly what was asked for or says that
it did not (replayer); callbacks see consecutive trades (gate, dispatch); a lost
link is replaced and a stop ends everything (connection, feed); a dead link is
noticed in time (heartbeat); latencies are right within a known error (clock);
no sample or maximum is lost between reports (histogram, reporter); a callback
gets what its message says (parser); a signal ends the program and nothing runs
into destroyed objects (program).

## 2. Modules

| Module | Models | Remarks |
|---|---|---|
| `RecordWriter` | the writer, file repair, crashes | implements `DurableLog` |
| `DurableLog` | abstract: files that grow at their ends by the calls of `write()` | |
| `RecordWriterProofs` | | theorems, refinement included |
| `TradeSeqGate` | the gate as operators on a record | shared by the next two |
| `SeqGateSystem` | one gate under an unreliable live stream and a recovery source | implements `OrderedDelivery` |
| `OrderedDelivery` | abstract: a log that only grows by the next id | |
| `SeqGateProofs` | | theorems, refinement included |
| `JsonValues` | what the JSON library makes of numbers | external |
| `Parser` | `parse_trade` and `parse_orderbook` as functions | |
| `MarketDispatch`, `MCMarketDispatch` | `on_raw_message` | composes parser, gates, book guard and counters |
| `MarketDispatchProofs` | | theorems |
| `Benchmark` | the pipeline benchmark and its exit code | drives `MarketDispatch` |
| `Connection` | connection manager and client, all threads | |
| `Heartbeat` | heartbeat against reads in discrete time | |
| `ConnectionProofs` | | theorems, those about the heartbeat included |
| `Replay`, `MCReplay` | reader, file selection and `replay_all` | |
| `ReplayProofs` | | theorems |
| `ClockOffset`, `MCClockOffset` | calibrator and its user | |
| `ClockOffsetProofs` | | theorems |
| `Feed` | start, stop and callbacks of the feed | composes reduced writers and connection |
| `FeedProofs` | | theorems |
| `LatencyHistogram` | `record` against `snapshot_and_reset` | actions used by `Program` |
| `RingBuffer` | push and snapshot as operators on a record | used by `Program` |
| `Config`, `CommandLine` | `load` and `parse_cli_options` as functions | used by `Program` |
| `Program` | `main`, `run_live`, signal handler, reporter | composes the last four with a reduced connection |
| `ProgramProofs` | | theorems, those about histogram, ring buffer, configuration and arguments included |

### How the state and the actions correspond to the code

**RecordWriter.** Members of `BinaryRecordWriter` keep their names (`queue`,
`accepting`, `running`, `written`, `dropped`, `current`, `fileCount`, ...).
`disk` is what the operating system holds of each hourly file: whether its
header is there, its `record_count`, its complete records, and whether half a
record follows. `buffer` is what the stream has not flushed; a flush may happen
at any write, and a failing one leaves any prefix, perhaps torn. `write()` is
two steps, because it notifies after it released the lock. The worker is a
program counter over `writer_loop`, `write_to_file`, `close_current_file`,
`persist_header_count`, `open_file` and `repair_record_file`; each I/O call is a
step that may fail. `Crash` resets everything but `disk`. Record contents and
CRCs are reduced to complete and torn. The refinement of `DurableLog` maps `last`
to the number of calls and each file to the call numbers of its complete records.

**Replay.** One call of `replay_all`. `Init` chooses a directory: per hour no
file or one with any bounded contents, with a limited number of defects
(unreadable header, damaged record, torn end, wrong count). Listing, each header
probe, each record and each change of file are steps, between which `Delete`
may remove a file and `RecorderAppends` may add a record, a torn part of the next
and a new count to the newest one. A record is its receive time and whether `record_crc_ok`
accepts it. A name is the hour it sorts with (`NamedHour`): its own, a negative time
clamped as in `hourly_file_name`, but 0 for the hours in `EarlyNames`, those of five-digit
years whose names sort before the names of all files. An optional is a set of at most one value. A
record is known by its place, hour and index; the history `delivered` is the
sequence of the places handed over, and `Listed` the selected hours in rising order.

**TradeSeqGate, SeqGateSystem, MarketDispatch.** The verdict and the state after
it are separate operators, as in `on_live_trade`. `SeqGateSystem` keeps histories: what
has passed, how much had passed when the open gap was found and which id found it
(`gap`), and the newest id of the live stream (`topLive`). A trade or depth message is a
payload with a field for each JSON field: its type, and its number or the class
of its text; `Parser` decides what becomes of it. The other messages are the
branch they take. A throwing callback and a negative latency are choices.

**LatencyHistogram.** A bucket is the set of samples it has counted, so that a
sample can be followed; its counter is the size of the set. Each atomic access is
a step. A weak exchange that fails for no reason leaves the loop where it was and
is left out. `Shifted[n]` is `1 << n`, by doubling.

**Program.** `phase` is the program counter of `main` and `run_live`, `rep` that
of the reporter, `reader` that of the read thread inside a message. One histogram
stands for the six that `collect_and_reset` empties one after the other, one
cache and one callback for those of trades and books. `StopManager` joins the
read thread but, as `Connection` shows, may miss a client that is being
connected, and it may not return: nothing forces it, nor the destructor of a manager
that still has a client (`AwaitsManager`). `alive` is the set of constructed locals, the
two print counters included, which are destroyed before the manager. The arguments and
the configuration are dropped once `run_live` has used them, since nothing reads them
later. The reporter's ten short sleeps are
one: it looks at `g_running` before and after.

**Config, CommandLine.** `load` and `parse_cli_options` are functions; an
exception or a refusal is the empty set or the status `"refused"`. Command lines
are checked against a reference that does not scan: in a `Sentence` of the usage text
every word is a flag or the value of the flag before it, a flag that needs a value
has one, and one flag at most chooses a mode. `MessagesGiven`, `LastGiven` and
`AsksHelp` say what it means.

**Connection.** `pc` holds a program counter per thread; `closer` stands for
whoever is inside `disconnect()`. Waiting on the condition variable is three
states (check, about to sleep, asleep), because the flags are set without
`cv_mutex_`. One connection attempt is a step that succeeds or fails. Three calls wait
for the network and may wait for ever: the connection attempt, the clock request and
the close of a silent link, during which `client_mutex_` is held. The time-outs set on
`tcp_stream` do not end them: they apply to asynchronous operations, and all of these
are synchronous.

**Heartbeat.** `now`, `lastRecv` and the instant until which `wait_for` waits, in
ticks. A wakeup comes at that instant or up to `MaxDelay` later, and the next wait
starts from there, so that wakeups drift.

**ClockOffset.** `skew` is the truth: how far the exchange clock is ahead.
Requests take any time out and back, the clock may be set meanwhile, answers may
be wrong. The three stores of an accepted sample become visible in any order;
`offset_us()` is two loads.

**Feed.** The two calls are sequences of steps on the owner's thread, the
internal callback is two steps on the read thread. `linger` says that
`cm_->stop()` missed a client, which `Connection` shows to be possible. A manager whose
`start()` threw before it had threads is `"half"` started.

## 3. Runs

Passing runs:

| Run | Shows |
|---|---|
| `writer` | every call of `write()` is counted once (`Accounting`), no header announces more than its file holds (`HeaderNeverOverstates`), files hold the accepted records in order (`FilesFollowAccepted`), a clean close is complete (`CleanCloseIsComplete`), the files are a durable log of the calls across crashes (`ImplementsDurableLog`), a queue with records drains (`QueueDrains`), `close()` returns (`CloseReturns`) |
| `gate_order` | from the opening of a gap until it is filled the missing range begins right after the last id that had passed and ends right before the id that opened it (`MissingRangeIsOpen`), a gate in Live is behind the live stream only by what was dropped during a recovery (`BehindOnlyAfterRecovery`), delivery is consecutive: the gate refines `OrderedDelivery` (`ImplementsOrderedDelivery`) |
| `dispatch` | consecutive trades and no older book after a newer one (`CallbacksInSequence`), the gap counters agree with the gates (`GapCountersMatchGates`), every message is in one class and every trade leaves a latency sample or a counted drop (`MessageAccounting`), a callback gets what its payload says (`RecordsMatchMessages`) |
| `connection` | one disconnect report per client, no reported loss forgotten, nothing delivered after destruction; `stop()` returns unless it waits for one of four things: a thread that missed its wakeup, a connection attempt, a clock request or the peer of a silent link (`StopHangsInNamedWaits`); a lost link is replaced unless the thread missed its wakeup or the close waits for a silent peer (`LostLinkIsReplaced`) |
| `heartbeat` | silence closes the link within time-out, one interval and one delay (`SilentLinkClosedInTime`), and not before as many pings as fit into the time-out however late the wakeups are (`PingsPrecedeClose`; two with the defaults and wakeups up to half a second late, since the third may find the time-out expired) |
| `replay` | delivered records are always a prefix of the wanted ones, `completed` means all that was there at the listing, damage stops exactly there, sound files replay whatever else lies around; the last three for windows whose ends are not early-named, see below |
| `clock` | only accepted offsets are used; latencies are right within `MaxError` and a tick |
| `feed` | nothing is left after `stop()` or a rolled-back `start()`, records meet open writers, and the only read thread that can be calling what `start()` replaces is that of a client which outlived `stop()` (`OnlyLingerersMeetRegistration`; it can, see below) |
| `live` | samples are in exactly one report (`SamplesConserved`), no maximum is lost (`MaxNotLost`), percentiles are within a factor of two above the true ones (`PercentilesBracket`), the cache holds the newest records (`CacheIsNewest`), nothing runs into destroyed objects but a lingering client into the print counters (`CallbacksFindLiveObjects`; see below), arguments mean what the usage says, in verdict, mode, number of messages, gap and CPU (`CommandLineMeaning`), a loaded configuration is usable, its ring size not narrowed (`LoadedConfigIsUsable`), a signal ends the program unless `mgr.stop()` does not return (`SignalStopsProgram`), a sample counted before the signal is reported sooner or later (`SamplesAreReported`) |

Runs that exhibit a disagreement between the code and what the repository says
of it (each is a finding in `PROJECT.json`, with both places quoted):

| Run | Shows |
|---|---|
| `connection_stop_returns` | both notifications can fall between check and sleep; `stop()` then joins for ever, even on a network that answers every call |
| `connection_stop_quiet` | a `stop()` during a connection attempt returns while the new client's threads run |
| `bench` | the benchmark's trades all have one id, the gate drops all but the first, and three messages or more give the exit code 1 |

In `MarketDispatch` `can_trade` is right (`TrustedMeansCaughtUp`, proved as
`TrustIsEarned`), because `on_raw_message` never calls
`on_replay_trade`: a symbol that has lost a trade stays in recovery, untrusted.
With a recovery source that is no longer so; `BehindOnlyAfterRecovery` says what is left.

### Further observations

Smaller disagreements met while modelling. The models behave as the code does
here; no run is devoted to them.

- `on_replay_trade` returns to Live at the end of the missing range
  (`src/src/network/trade_seq_gate.h:88`), although the trade that opened the gap and
  those that came during the recovery were received and discarded, not "held for now"
  (line 20). `can_trade`, which `src/src/network/connection_manager.h:43` explains as
  whether the live trades can be trusted, then says yes of a gate that is behind, and
  the next live trade opens a second gap. The unit test
  (`src/tests/unit/trade_seq_gate_test.cpp:77`) goes on only because it sends the
  discarded trade again.
- Consequences of `connection_stop_quiet`: a feed started again after a `stop()` that
  missed a client assigns the manager's `std::function`s (`src/src/api/feed.cpp:105`)
  while that client's read thread may be calling them, which
  `src/include/mds/feed.h:82` calls not thread-safe. `OnlyLingerersMeetRegistration`
  says that there is no other way to it.
- And in `run_live`: the print counters are declared after the manager
  (`src/src/main.cpp:317`) and captured by reference by the callbacks (lines 321 and
  354), so such a client's callback may run after their end, against lines 271 to 273.
  Their destructors are trivial: it is the lifetime that is violated, not yet the memory.
- The year in a file's name is written with `%04d` (`src/src/storage/file_roll.h:48`): a
  `to_us` in one of the years 10000 to about 20259 gives a name that sorts before
  today's files, against line 85. No file is selected, and the replay returns
  `completed` without a record.
- The waits without a deadline named by `StopHangsInNamedWaits`: `ws_.close()` with
  `client_mutex_` held (`src/src/network/websocket_client.cpp:200`), the connection
  attempt (line 161 lifts the deadline before the handshake at 166), the clock request.
- Only data refresh the receive time (`src/src/network/websocket_client.cpp:246`),
  so a link whose peer answers pings but has no data is closed (line 286), while
  `src/src/config/config.h:53` says the ping keeps quiet symbols alive.
- Half a record at the end of a file gives no `file_error`
  (`src/src/storage/binary_record_reader.h:101`), while
  `src/include/mds/replayer.h:27` lists truncation under it.
- Only the sum of the header counts is tested for 0
  (`src/src/replay/record_replayer.h:71`): one unclosed file among closed ones
  makes sound data a `count_mismatch`, which `src/include/mds/replayer.h:24`
  excludes for an unclosed file.
- After an I/O failure has stopped the worker, `write()` refuses without counting
  (`src/src/storage/binary_record_writer.h:86`), while `src/src/api/feed.cpp:107`
  says of the ignored result that the writer counts it as dropped. `Accounting`
  holds because it counts refusals on the caller's side.
- `open()` repairs nothing; a damaged file is repaired when the first record of
  its hour arrives (`src/src/storage/binary_record_writer.h:277`), while
  `src/EXTENSIONS.md:82` says the writer cuts damaged tails when it is opened and
  `src/src/main.cpp:299` looks for recovered tails right after `open()`, where
  there are none yet.
- A crash after a file was created and before its header was flushed leaves a
  file that repair refuses: every record of that hour then stops the writer.
- A replay of the current hour beside a recorder reports `count_mismatch` when
  records arrive after the headers were summed
  (`src/src/storage/binary_record_reader.h:74`), unless it has a window.
- The reporter's last collection may run before `mgr.stop()` has ended the read
  thread: samples counted after the signal can stay in memory, against the
  comment at `src/src/main.cpp:259`. `SamplesAreReported` speaks of those
  counted before it.
- Without a `config.json`, `load()` returns before it looks at `https_proxy`
  (`src/src/config/config.h:75`), while lines 45 to 46 promise the environment's
  proxy where the file names none.
- The timing fields are read with `get<int>()`, which narrows a large integer and
  takes `true` for 1 (`src/src/config/config.h:140`); the checks at the end see
  the narrowed value. Only `ring_buffer_size` is guarded against it, twice over.
- A trade is checked by the gate of its stream's symbol but keeps the symbol of
  its payload (`src/src/network/connection_manager.cpp:466`); nothing compares
  the two.
- With an empty `symbols` list the benchmark falls back to a symbol that is not
  subscribed (`src/src/benchmark/pipeline_benchmark.cpp:140`), so every message is
  a parse error.
- A user callback that calls `feed.stop()` makes the read thread join itself
  (`src/src/network/websocket_client.cpp:204`).

### Bounds

| Run | Bounds | Why they are enough |
|---|---|---|
| `writer` | 2 hours, 4 records, queue 3, batch 2, 2 openings, 1 producer | a batch can be split by a roll, the queue can overflow, records can be left in queue, batch and buffer at a failure, and a damaged file can be reopened; in the program one read thread feeds each writer |
| `gate_order` | ids 1 to 9 | gaps of several ids, recoveries, and further gaps after them |
| `dispatch` | 2 interchangeable symbols, ids up to 4, 5 messages, 8-bit integers, 10 microseconds to the millisecond, 2 levels | gaps of both symbols interleaved with duplicates and held trades; times on both sides of every limit; more levels than the depth |
| `connection` | 2 stops (owner and destructor), reconnect limit 1 | the limit bounds failed attempts in a row; clients are replaced without limit |
| `connection_stop_*` | 2 stops, no reconnect limit | as configured by default |
| `heartbeat` | interval 2, time-out 6, delay 1, 18 ticks | the time-out is a multiple of the interval, as with the defaults, so that a late wakeup decides whether another ping goes out; two silences after data fit in |
| `replay` | 2 hours of 2 instants, 2 records a file, 2 defects, 1 deletion or appended record, window ends -1, 3, 4, 10, the last in an early-named hour | both sides of an hour's border, a time before the epoch, a far one, a crash's pair of defects (torn end and stale count); a change before, between and after the reader's looks at the file |
| `clock` | 2 calibrations, delays 0, 1, 3, skews -2, 0, 5, tick 2 | accepted and rejected samples of each kind follow each other |
| `feed` | none | |
| `live` | 3 messages, 3 arguments, 2 buckets, latencies 0, 1 and 3, reports every 2 ticks, 4-bit `int`, 6-bit `int64_t`, rings of at most 2 | samples are in record, buckets, snapshot and report at once and a compare-exchange can lose its race; a mode, its value and another flag; integers that wrap once and twice. With three messages a snapshot of a full ring crosses its end. Three buckets with a latency in each pass too, in 3 minutes |
| `bench` | 4 messages | the third is the second trade |

Deadlock is checked everywhere except in `replay` and `bench`, where the modelled
call returns.

### Fairness

Only the runs with liveness properties (`writer`, `connection`,
`connection_stop_returns`, `live`) assume any, and only weak fairness of a thread that
can run, which the operating system's scheduler provides. In `RecordWriter`: the
worker, the steps of `close()` and the pending notification of a producer. In
`Connection`: every thread, the end of timed waits, and the time-out of a silent link
while its heartbeat runs. That the network answers is not assumed: a connection attempt,
a clock request or the close of a silent link may never return, and the properties name
these waits. Only `connection_stop_returns` adds it (`AnsweringSpec`), so that its
counterexample rests on the lost wakeup alone. In `Program`: the read thread inside a
message, the reporter, whose sleep ends, and main except where it waits for the manager
(`AwaitsManager`), since `Connection` shows that `mgr.stop()` may not return.
Nothing forces calls of `write()`, `close()` or `stop()`, losses of the link, crashes or
spurious wakeups.

## 4. Proofs

Each theorem is of the form `Spec => []P` or, for a refinement, `Spec` implies the
abstract specification, for every value of the constants.

| Module | Theorem | Property |
|---|---|---|
| `RecordWriterProofs` | `WriterInvariance`, `WriterOrder`, `NothingLostSilently` | the inductive invariants `WriterInv`, `OrderInv`, `LossInv` |
| | `WriterTypes`, `WriterAccounting`, `WriterHeaders` | `TypeOK`, `Accounting`, `HeaderNeverOverstates` |
| | `FilesFollowTheCalls`, `CleanCloseKeepsAll` | `FilesFollowAccepted`, `CleanCloseIsComplete` |
| | `WriterImplementsDurableLog` | the writer implements `DurableLog` |
| `SeqGateProofs` | `Invariance`, `GateSkipsNothing`, `GateRangeIsOpen`, `GateLagIsBounded` | `IInv`, `NothingSkipped` (consecutive ids), `MissingRangeIsOpen`, `BehindOnlyAfterRecovery` |
| | `GateImplementsOrderedDelivery` | `SeqGateSystem` implements `OrderedDelivery` |
| `MarketDispatchProofs` | `DispatchInvariance` | the inductive invariant `DispatchInv` |
| | `CallbackOrder`, `TrustIsEarned`, `GapCountersAgree`, `EveryMessageCounted`, `RecordsAreFaithful` | `CallbacksInSequence`, `TrustedMeansCaughtUp`, `GapCountersMatchGates`, `MessageAccounting`, `RecordsMatchMessages` |
| `ConnectionProofs` | `ConnInvariance` | the inductive invariant `ConnInv` |
| | `DisconnectReportedOnce`, `LossRemembered`, `DeliveryEnds` | `DisconnectOnce`, `LossNotForgotten`, `DestructionEndsDelivery` |
| | `BeatInvariance`, `SilentLinkIsClosedInTime`, `CloseFollowsPings` | `BeatInv`, `SilentLinkClosedInTime`, `PingsPrecedeClose` |
| `ReplayProofs` | `ReplayInvariance` | the inductive invariant `ReplayInv` |
| | `DeliveryIsPrefix`, `CompletionIsExact`, `DamageStopsReplay`, `SoundFilesAreReplayed` | `DeliveredIsPrefix`, `CompletedIsExact`, `DamageStopsThere`, `SoundFilesComplete` |
| `ClockOffsetProofs` | `ClockInvariance`, `OffsetIsAccepted`, `LatencyBound` | `ClockInv`, `UsesAcceptedOffset`, `LatencyIsRight` |
| `FeedProofs` | `FeedInvariance` | the inductive invariant `FeedInv` |
| | `StoppedFeedIsClean`, `WritersOpenForWrites`, `RegistrationMeetsOnlyLingerers` | `StoppedIsClean`, `WritesMeetOpenWriters`, `OnlyLingerersMeetRegistration` |
| `ProgramProofs` | `HistInvariance`, `ProgramInvariance` | the inductive invariants `HistInv` and `ControlInv`, `HistInv`, `ConfigInv`, `CacheInv` together |
| | `ShutdownOrder`, `SamplesAreConserved`, `MaximumKept`, `ConfigSuitsComponents`, `CacheKeepsNewest` | `CallbacksFindLiveObjects`, `SamplesConserved`, `MaxNotLost`, `LoadedConfigIsUsable`, `CacheIsNewest` |
| | `PercentilesAreBracketed`, `ArgumentsMeanUsage` | `PercentilesBracket`, `CommandLineMeaning` |

All use only the named assumptions on the constants: positive capacity, batch
size, number of buckets and tick, `PingInterval < NoDataTimeout` as `Config`
demands, `int` narrower than `int64_t`, a finite set of symbols, hours that are no
`NoFile`, finitely many positive hours of positive length for a replay and early-named hours
later than all of them, latencies in
the range of the integer, a largest CPU number below the largest gap, and bounds in
`Nat`. The runs evaluate them.

### The arguments

*Writer, counters and headers.* `HeaderNeverOverstates` is not inductive: the
header gets `file_record_count_`, so one must know that this counter is the number
of records in the file and the buffer together, that the buffer is empty when the
count is written (`persist_header_count` flushes first), and that none of this is
claimed once a failure has occurred. `StreamInv` says so. `Accounting` needs to
know where the worker can be with which batch (`ControlInv`): a batch is complete
when the header is persisted, a file is only opened for a record that exists, and
nothing is queued once the worker has left. `WriterInv` is the conjunction.

*Writer, order and refinement.* `OrderInv` places every record that is still
somewhere: all that is on disk, in whatever file, comes before the buffer, the
buffer before the rest of the batch, that before the queue, and each of them is in
the order of the calls. A step either leaves the records of all files alone or
adds later ones to the end of one (`OrderStep`), which is what `DurableLog` allows;
`GrowsStores` maps it to `Store`.

*Writer, completeness.* `LossInv` adds what has been accepted since `open()`.
`HeldInv`: as long as nothing has failed, an accepted record is in its file or
still held. `NoHoles` follows in a step without failure, because what is held comes
after what is on disk; in the step that fails a prefix of the buffer is written and
the files end before the first record lost (`HeldFlush`, `LoseLoss`); after it
nothing is written any more, which needs `RestInv`. `SealedInv` says that a file
the writer has left is whole and counted, because rolling persists the header first.
At a close without an error nothing is held and no file is open.

*Gate.* `NothingSkipped` speaks of what has passed, but the code decides by
`last`; `LastIsLastPassed` ties the two, `MissingRangeIsOpen` fixes where a
recovery stands: `gap` says how much had passed when it began and which id opened it,
later ids only append to what has passed. `BehindOnlyAfterRecovery` rests on it, since
a recovery ends at the id before the opener, and on `FirstPasses`: before the first
trade has passed nothing was received. The refinement follows: a passed trade appends
the next id, everything else stutters.

*Dispatch.* `GateInv` ties the gate of each symbol to the trades handed out and,
while it is live, to the highest id received. The counters are sums over symbols,
here cardinalities of sets: one message moves one symbol into or out of `Held`,
and the trades it finds missing are disjoint from those of other symbols. For
`RecordsMatchMessages` the conversions are followed: a number above the range of
`int64_t` turns negative and fails the check, one that passes is what it was, and
scaled to microseconds it still fits.

*Connection.* `DisconnectOnce` needs to know who can be inside
`notify_disconnect`: the read thread, or whoever runs `disconnect()`, who has then
joined it (`ReportInv`), under `client_mutex_` (`MutexInv`). `LossNotForgotten`
rests on the order of `reconnect_loop`: the flag is reset before the subscription
is sent, and the send fails on a dead socket (`LossInv`). `DeathInv` says that the
second stop has closed the socket of a client that still reads, or is about to.

*Heartbeat.* The next wait ends no more than time-out plus interval after the
last data, because a ping is only sent if the time-out has not expired, and time passes
it by at most the delay; and it ends within one interval and one delay for each ping
sent, and one interval more (`PingInv`).

*Replay.* The properties speak of the whole directory, the reader of its position.
`PassedInv` ties them: the records before the position in the listed files are
undamaged, and those of them in the window, no others, were handed over. It needs
that the listing is the selected hours in rising order (`ListInv`; that a finite set
of hours can be so listed is `ListedRises`) and that a file left out by its name
holds nothing of the window (`WantedAreSelected`), which is where an early name would
break it: `NamesAreHours` and `WindowHours` compare names with hours for windows
without one. That what is handed over is wanted and a prefix needs no such condition.
`AppendInv` and the last part of
`PhaseInv` make a completed replay reach at least what the listing found: what a
recorder appends comes after it, in the newest file. `PhaseInv` also says why a reader
stopped, `ResultInv` what the result makes of it. `TotalInv` is for the comparison of
counts at the end: the sum of the headers is the number of places in the files
probed so far, so undamaged files give no mismatch.

*Clock.* `MidpointError` bounds the error of one sample by arithmetic;
`ClockInv` says that whatever is stored, about to be stored or used comes from an
accepted sample, and `Measured` relates the recorded latency to the offset used.

*Feed.* The owner's position in `start()` or `stop()` fixes the state of the
connection (`PhaseInv`); a callback runs only while it is not stopped or for a
client that lingers (`CallbackInv`), so one that is there when `start()` registers can
only be of such a client; the writers are open in between (`WriterInv`).

*Program.* `ControlInv` fixes for each phase of `run_live` which objects are
constructed and which threads may run; the counters are gone while the manager still
stands only after `mgr.stop()`, when a callback can only be of a client it missed.
`HistInv` follows a sample from `record()`
to a report: it is in the bucket of its latency only, and the snapshot has taken
nothing from the buckets it has not come to; the maximum is in `max_us_`, in the
hands of a `record()` that will still exchange it, or with the snapshot. The
index of a bucket is a least number; that one exists comes from the well-foundedness
of finite sets (`LeastNat`), which stands for induction here: the powers of two
(`ShiftGrows`) and the scan of the arguments (`ScanExists`) exist because there is no
least number up to which they do not. `RingInv` gives each of the
last records the slot of its number modulo the capacity; the lemmas on remainders
show that these slots differ and where a snapshot finds them.

*Percentiles.* A report is computed from a snapshot, so `HistInv` knows of it that its
buckets are finite and hold the samples of their index only. For a rank there is a
least latency with as many samples up to it (`SampleOfRank`). The running sum over
the buckets reaches the rank in the bucket of that latency and not earlier, since the
samples of the buckets before are those with smaller latencies (`EstimateBrackets`);
the upper border of that bucket is at most twice the latency, as the lower one is
a power of two, and so is the largest integer, which stands for the border of the
last bucket.

*Arguments.* `ScanInv` says of the state after each number of words what they are as
text: after no refusal they are the beginning of a sentence, `wants` is the value
the last flag still lacks, and the options are those the words give, the number of
messages among them (`MessagesStay`, `MessagesTaken`). A refusal is
final, and so is help. One word more keeps this, whether it is a value (`ValueStep`)
or a flag (`FlagStep`), and refuses only what no sentence begins with.

### Only model-checked

- All liveness (`QueueDrains`, `CloseReturns`, those of `Connection` and `Program`):
  the prover has no support for fairness.

Every invariant of a passing run, and both refinements, are stated by theorems.

## 5. Assumptions and what is left out

- A crash is the death of the process: what reached the operating system stays.
  Loss of power is not modelled (the code never calls fsync).
- After an I/O failure the stream stays failed until the file is closed.
- The owner closes a writer before it opens it again, calls `start()` of the
  connection manager once per stop, and starts and stops a feed from one thread.
- Beast: a read fails once the peer has reset the link or the socket was closed
  here. `close` returns when the peer answers or the link fails.
- A recorder that appends during a replay has already repaired the file; a repair
  during a replay, which may shorten the file, is not modelled.
- A file is of the hour of its records: `recv_ts_us` is always a positive
  wall-clock reading. Trade ids are far below the limit of `int64_t`.
- Files are of years with four digits. Of the five-digit years in a window only those
  whose names sort before all files are modelled, not the later ones, whose names may
  sort between two files or behind them as they should.
- Two threads that write to the console, and the console's mutex, are left out.

Behaviour the models leave out or only pass through, to be remembered when the
code changes: `open()` of a writer that stopped on a failure and was not closed
assigns to a joinable thread (`storage/binary_record_writer.h:78`); `clock_cv_` is
notified without its mutex, so `stop()` may be delayed by up to 300 s
(`network/connection_manager.cpp:208`); the manager's condition
variable is destroyed before `client_`, whose read thread may still be reporting
its end (`network/connection_manager.cpp:104`); a `stop()` from another thread
during `start()` of a feed finds nothing to stop (`api/feed.cpp:155`); a `stop()` that
throws inside the roll-back of `start()` (`api/feed.cpp:147`); the
reporter's rates and the counters behind them.

Not modelled: the HTTPS client (one blocking request over library calls, without
state; its outcome and duration are inputs of `ClockOffset`), CPU affinity (one
system call whose result is only logged), what is printed, and the timing
histograms inside one message (they use the histogram that is modelled and decide
nothing). The conversions of text to floating point and the JSON grammar belong
to libraries; `Parser` and `Config` know their outcomes only.

## 6. Plan

Done in this order, by importance: writer, gate, dispatch, connection,
heartbeat, replay, clock and feed; then the abstract durable log, a recorder
beside a replay, the parser, the histogram and the program; then the proofs of
writer, dispatch, connection, feed and program, and last those of replay,
percentiles and arguments. What is left:

1. Writer and reader composed: a replay of what a writer with crashes left
   behind, from `RecordWriter`'s `disk`.
2. `RecordWriter` with two producers, for users of the writer other than the feed.
